---- MODULE Spec2Model ----
(***************************************************************************)
(* A model of autodunders (src/src/autodunders.py): injection of generic   *)
(* __eq__ / __repr__ implementations into classes, one class at a time     *)
(* (add_dunders) or over the classes found in a module's namespace         *)
(* (add_dunders_to_module), the registry of injectable functions           *)
(* (register), and the synthesized functions themselves (autoeq,           *)
(* autorepr) computed from an object's own and class-level attributes.     *)
(***************************************************************************)
EXTENDS Integers, Sequences, FiniteSets, TLC

VARIABLES
    slots,             \* slots[c][d]: entry d of class c's own method table (type(c).__dict__)
    dunders_to_funcs,  \* the process-wide registry _dunders_to_funcs
    deco,              \* the closure cells of a pending add_dunders(dunders=..., callbacks=...)
    last,              \* the call that was made last, with its arguments and outcome
    pre,               \* slots and registry as they were when that call started
    calls,             \* the number of calls made, where a run is bounded
    klass,             \* a class statement: its name, its body and its __slots__
    objs,              \* two instances, self and other, with the attributes assigned on them
    res                \* the result of the last autorepr or autoeq call on them

inject == <<slots, dunders_to_funcs, deco, last, pre, calls>>
vars == <<slots, dunders_to_funcs, deco, last, pre, calls, klass, objs, res>>

(***************************************************************************)
(* Python values the injector handles.                                     *)
(***************************************************************************)

\* A method-table entry or mapping key that is not there.
Absent == "<absent>"

\* Behaviour names used in calls.  __str__ is an attribute of object that the
\* default registry does not hold; __len__ is not an attribute of object.
Names == {"__repr__", "__eq__", "__str__", "__len__"}

\* The names for which getattr(object, name) succeeds.
ObjectAttrs == {"__repr__", "__eq__", "__str__"}

\* getattr(object, d): the base-object default implementation of d.
ObjectAttr(d) == "object." \o d

\* The classes of the modelled process, each with its __mro__ (object left out).
\*   pkg:      class Base; class Derived(Base); class Multi(Base, Imp)
\*   other:    class Imp          (pkg does `from other import Imp`)
\*   pkg.sub:  class Sub
Classes == {"Base", "Derived", "Multi", "Imp", "Sub"}

Mro(c) ==
    CASE c = "Derived" -> <<"Derived", "Base">>
      [] c = "Multi"   -> <<"Multi", "Base", "Imp">>
      [] OTHER         -> <<c>>

\* The module in whose source each class is defined (its __module__).
DefinedIn(c) ==
    CASE c = "Imp" -> "other"
      [] c = "Sub" -> "pkg.sub"
      [] OTHER     -> "pkg"

\* Values found in a module's __dict__.
ClassObj(c) == [kind |-> "class", id |-> c]
ModuleObj(m) == [kind |-> "module", id |-> m]
StrObj(s) == [kind |-> "str", id |-> s]
IntObj(s) == [kind |-> "int", id |-> s]

\* sys.modules: the modules that have been imported, by name.
SysModules == {"pkg", "pkg.sub", "other"}

\* module.__dict__.values(), in insertion order.
ModuleDict(m) ==
    CASE m = "pkg" ->
            <<StrObj("pkg"), ModuleObj("other"), ClassObj("Imp"), ClassObj("Base"),
              ClassObj("Derived"), ModuleObj("pkg.sub"), ClassObj("Multi"), IntObj("42")>>
      [] m = "pkg.sub" -> <<StrObj("pkg.sub"), ClassObj("Sub")>>
      [] OTHER -> <<StrObj("other"), ClassObj("Imp")>>

\* module.__package__: a string, as the import system sets it.
Package(m) ==
    CASE m = "pkg"     -> StrObj("pkg")
      [] m = "pkg.sub" -> StrObj("pkg")
      [] OTHER         -> StrObj("")

\* Python's == between a string and a module object: equal only when both are
\* the same kind of value with the same content.
PyEq(x, y) == x.kind = y.kind /\ x.id = y.id

\* A method a class defines in its own source.
SrcDef(c, d) == c \o "." \o d

\* The (class, name) pairs a class body may or may not define in its source.
SrcChoices == {<<"Base", "__repr__">>, <<"Imp", "__repr__">>}

\* Arguments drawn for the calls.
NoneArg == [none |-> TRUE, val |-> <<>>]
Given(v) == [none |-> FALSE, val |-> v]

\* dunders=... of add_dunders
DunderArgs ==
    {NoneArg, Given(<<"__repr__">>), Given(<<"__str__">>),
     Given(<<"__eq__", "__str__", "__repr__">>)}

\* dunders=... of add_dunders_to_module
ModuleDunderArgs ==
    {NoneArg, Given(<<"__repr__">>), Given(<<"__eq__", "__str__", "__repr__">>),
     Given(<<"__repr__", "__len__">>)}

\* callbacks = {'__repr__': custom_repr}, the mapping the tests pass.
CustomCallbacks ==
    [d \in Names |-> IF d = "__repr__" THEN "custom_repr" ELSE Absent]

CallbackArgs == {"None", "custom"}

\* module=...: the package itself, its name, the name of a module that was
\* never imported, and a value that is neither a module nor a string.
ModuleArgs == {ModuleObj("pkg"), StrObj("pkg"), StrObj("lazy"), IntObj("42")}

\* The argument lists of the add_dunders_to_module calls made.
ModuleCallArgs ==
    ({ModuleObj("pkg")} \X ModuleDunderArgs \X CallbackArgs \X BOOLEAN)
    \cup ((ModuleArgs \ {ModuleObj("pkg")}) \X {NoneArg, Given(<<"__repr__">>)}
              \X CallbackArgs \X {FALSE})

\* Functions passed to register.
RegFuncs == {"other_func"}
RegNames == {"__repr__", "__str__"}

NoCall == [op |-> "none", target |-> StrObj(""), dunders |-> NoneArg,
           callbacks |-> "None", recurse |-> FALSE, func |-> Absent, err |-> "none"]

NoDeco == [made |-> FALSE, dunders |-> NoneArg, callbacks |-> "None"]

(***************************************************************************)
(* Attribute lookup on classes.                                            *)
(***************************************************************************)

\* The classes of c's __mro__ whose own table holds d.
Holders(sl, c, d) == SelectSeq(Mro(c), LAMBDA k : sl[k][d] # Absent)

\* hasattr(c, d) for a class c.
HasAttr(sl, c, d) == Holders(sl, c, d) # <<>> \/ d \in ObjectAttrs

\* getattr(c, d) for a class c with hasattr(c, d): the first holder in the
\* __mro__, and object's implementation when no class holds d.
Getattr(sl, c, d) ==
    IF Holders(sl, c, d) # <<>> THEN sl[Head(Holders(sl, c, d))][d] ELSE ObjectAttr(d)

\* `if dunders is None: dunders = ('__repr__', '__eq__')`
DefaultDunders(arg) == IF arg.none THEN <<"__repr__", "__eq__">> ELSE arg.val

\* _dunders_to_funcs as the module defines it.
InitialRegistry ==
    [d \in Names |-> CASE d = "__eq__" -> "autoeq"
                       [] d = "__repr__" -> "autorepr"
                       [] OTHER -> Absent]

\* A default mapping fixed when the module was loaded instead of read when the
\* injection happens.
DefaultCallbacksAtImport(arg, reg) ==
    IF arg = "custom" THEN CustomCallbacks ELSE InitialRegistry

\* `if callbacks is None: callbacks = _dunders_to_funcs`: the registry object
\* itself, so the mapping read is the registry as it is when it is read.
DefaultCallbacks(arg, reg) == IF arg = "custom" THEN CustomCallbacks ELSE reg

(***************************************************************************)
(* add_dunders: the loop of add_dunders_to_class.                          *)
(***************************************************************************)

\* `for dunder in dunders: setattr(cls, dunder, callbacks[dunder])` from
\* position i on; callbacks[dunder] raises KeyError for a missing key.
RECURSIVE add_dunders_to_class(_, _, _, _, _)
add_dunders_to_class(st, cls, dunders, callbacks, i) ==
    IF i > Len(dunders) THEN st
    ELSE IF callbacks[dunders[i]] = Absent THEN [st EXCEPT !.err = "KeyError"]
    ELSE add_dunders_to_class(
             [st EXCEPT !.slots[cls][dunders[i]] = callbacks[dunders[i]]],
             cls, dunders, callbacks, i + 1)

\* dunder_decorator(cls) with the closure's dunders and callbacks cells.
dunder_decorator(sl, reg, cls, dunders, callbacks) ==
    add_dunders_to_class([slots |-> sl, err |-> "none"], cls,
                         DefaultDunders(dunders), DefaultCallbacks(callbacks, reg), 1)

(***************************************************************************)
(* add_dunders_to_module.                                                  *)
(***************************************************************************)

\* inspect.isclass(obj)
IsClass(obj) == obj.kind = "class"

\* pred(obj) raises AttributeError when getattr(obj, dunder) or
\* getattr(object, dunder) finds no attribute.
PredRaises(sl, obj, dunder) ==
    IsClass(obj) /\ (~HasAttr(sl, obj.id, dunder) \/ dunder \notin ObjectAttrs)

\* A guard that asks whether the class has customised anything at all.
pred_per_class(sl, obj, dunder) ==
    IsClass(obj) /\ \A d \in ObjectAttrs : Getattr(sl, obj.id, d) = ObjectAttr(d)

\* pred(obj): a class whose dunder is object's.
pred(sl, obj, dunder) ==
    IsClass(obj) /\ Getattr(sl, obj.id, dunder) = ObjectAttr(dunder)

\* `recurse and isinstance(obj, types.ModuleType) and obj.__package__ == module`
\* where module is the module object being traversed.
Descends(obj, module, recurse) ==
    recurse /\ obj.kind = "module" /\ PyEq(Package(obj.id), ModuleObj(module))

\* The mapping looked up for every class met, before pred is asked.
visit_lookup_first(st, obj, dunder, callbacks) ==
    IF IsClass(obj) /\ callbacks[dunder] = Absent THEN [st EXCEPT !.err = "KeyError"]
    ELSE IF PredRaises(st.slots, obj, dunder) THEN [st EXCEPT !.err = "AttributeError"]
    ELSE IF ~pred(st.slots, obj, dunder) THEN st
    ELSE [st EXCEPT !.slots[obj.id][dunder] = callbacks[dunder]]

\* One value of the namespace: pred(obj) is evaluated, and when it holds
\* `setattr(cls, dunder, callbacks[dunder])` runs, the lookup first.
visit(st, obj, dunder, callbacks) ==
    IF PredRaises(st.slots, obj, dunder) THEN [st EXCEPT !.err = "AttributeError"]
    ELSE IF ~pred(st.slots, obj, dunder) THEN st
    ELSE IF callbacks[dunder] = Absent THEN [st EXCEPT !.err = "KeyError"]
    ELSE [st EXCEPT !.slots[obj.id][dunder] = callbacks[dunder]]

\* _add_to_objects driving the generator _module_attrs: the values of
\* module.__dict__ from position i on, each tested by pred when it is reached,
\* overwritten when pred holds, and descended into when it is a submodule.
RECURSIVE add_to_objects(_, _, _, _, _, _)
add_to_objects(st, module, dunder, callbacks, recurse, i) ==
    IF st.err # "none" \/ i > Len(ModuleDict(module)) THEN st
    ELSE LET obj == ModuleDict(module)[i]
             st1 == visit(st, obj, dunder, callbacks)
             st2 == IF st1.err = "none" /\ Descends(obj, module, recurse)
                        THEN add_to_objects(st1, obj.id, dunder, callbacks, recurse, 1)
                    ELSE st1
         IN  add_to_objects(st2, module, dunder, callbacks, recurse, i + 1)

\* The ModuleType overload: one pass of _add_to_objects per requested name.
RECURSIVE add_dunders_to_loaded(_, _, _, _, _, _)
add_dunders_to_loaded(st, module, dunders, callbacks, recurse, i) ==
    IF st.err # "none" \/ i > Len(dunders) THEN st
    ELSE add_dunders_to_loaded(
             add_to_objects(st, module, dunders[i], callbacks, recurse, 1),
             module, dunders, callbacks, recurse, i + 1)

\* The singledispatch function: str looks the name up in sys.modules, a module
\* is used as it is, and any other type raises TypeError.
add_dunders_to_module(sl, reg, arg, dunders, callbacks, recurse) ==
    LET st == [slots |-> sl, err |-> "none"]
    IN  IF arg.kind = "str" /\ arg.id \notin SysModules THEN [st EXCEPT !.err = "KeyError"]
        ELSE IF arg.kind \in {"str", "module"}
            THEN add_dunders_to_loaded(st, arg.id, DefaultDunders(dunders),
                                       DefaultCallbacks(callbacks, reg), recurse, 1)
        ELSE [st EXCEPT !.err = "TypeError"]


(***************************************************************************)
(* Objects: own attributes, class-level attributes, autoeq and autorepr.   *)
(***************************************************************************)

\* Attribute names and the order sorted() gives them.
FieldNames == <<"a", "b", "c">>
Position(n) == CHOOSE i \in 1..Len(FieldNames) : FieldNames[i] = n

\* Values: integers, and the member descriptor a slot puts on its class.
IntVal(n) == [kind |-> "int", v |-> n]
Member == [kind |-> "member", v |-> 0]

\* Values assigned on instances.
OwnVals == {IntVal(3), IntVal(4)}

\* The most attributes an instance is given.
MaxOwn == 2
\* The most class-level fields a class body declares, and the most slots.
MaxDeclared == 2

\* The sequences of distinct names of length n.
RECURSIVE Arrangements(_)
Arrangements(n) ==
    IF n = 0 THEN {<<>>}
    ELSE {Append(q, x) : q \in Arrangements(n - 1), x \in {FieldNames[i] : i \in 1..Len(FieldNames)}}

Distinct(q) == \A i, j \in 1..Len(q) : i # j => q[i] # q[j]
Declarations == UNION {{q \in Arrangements(n) : Distinct(q)} : n \in 0..MaxDeclared}

\* class Foo: a = 1; b = 2; ... with an __init__: the class-level fields are
\* given the values 1, 2, ... in the order of the body.
PlainClass(names) ==
    [name |-> "Foo", slotted |-> FALSE, declared |-> <<>>,
     body |-> [i \in 1..Len(names) |-> [k |-> names[i], v |-> IntVal(i)]]]

\* class Foo: __slots__ = names, with an __init__.
SlottedClass(names) ==
    [name |-> "Foo", slotted |-> TRUE, declared |-> names, body |-> <<>>]

ClassDefs ==
    {PlainClass(q) : q \in Declarations}
    \cup {SlottedClass(q) : q \in Declarations \ {<<>>}}

\* The slot names as type.__new__ lays them out: sorted.
RECURSIVE SortedNames(_)
SortedNames(S) ==
    IF S = {} THEN <<>>
    ELSE LET n == CHOOSE x \in S : \A y \in S : Position(x) <= Position(y)
         IN  <<n>> \o SortedNames(S \ {n})

Range(q) == {q[i] : i \in 1..Len(q)}
Keys(d) == [i \in 1..Len(d) |-> d[i].k]

\* type(obj).__dict__.keys() after injection: the namespace of the class body in
\* order, then the member descriptors of the slots (sorted) or __dict__ and
\* __weakref__, then __doc__, then the injected __repr__ and __eq__.
TypeDictKeys(cls) ==
    <<"__module__">>
    \o (IF cls.slotted THEN <<"__slots__">> ELSE <<>>)
    \o Keys(cls.body)
    \o <<"__init__">>
    \o (IF cls.slotted THEN SortedNames(Range(cls.declared)) ELSE <<"__dict__", "__weakref__">>)
    \o <<"__doc__", "__repr__", "__eq__">>

\* getattr(type(obj), attr) for a class-level field or a slot.
ClassAttr(cls, attr) ==
    IF \E i \in 1..Len(cls.body) : cls.body[i].k = attr
        THEN cls.body[CHOOSE i \in 1..Len(cls.body) : cls.body[i].k = attr].v
        ELSE Member

\* An instance as __init__ leaves it: every slot of a slotted class assigned (3
\* to each), nothing assigned yet otherwise.
Construct(name, cls) ==
    [cls |-> name,
     attrs |-> [i \in 1..Len(cls.declared) |-> [k |-> cls.declared[i], v |-> IntVal(3)]]]

\* getattr(obj, attr) for an attribute assigned on obj.
InstanceAttr(obj, attr) ==
    obj.attrs[CHOOSE i \in 1..Len(obj.attrs) : obj.attrs[i].k = attr].v

\* _obj_attrs(obj)
obj_attrs(cls, obj) == IF cls.slotted THEN cls.declared ELSE Keys(obj.attrs)

\* _obj_attr_vals(obj)
obj_attr_vals(cls, obj) ==
    [i \in 1..Len(obj_attrs(cls, obj)) |-> InstanceAttr(obj, obj_attrs(cls, obj)[i])]

\* attr[:2] and attr[-2:]: slices, shorter than two characters for a shorter name.
FirstTwo(attr) == SubSeq(attr, 1, IF Len(attr) < 2 THEN Len(attr) ELSE 2)
LastTwo(attr) == SubSeq(attr, IF Len(attr) < 2 THEN 1 ELSE Len(attr) - 1, Len(attr))

\* attr[:2] == '__' and attr[-2:] == '__'
IsDunder(attr) == FirstTwo(attr) = "__" /\ LastTwo(attr) = "__"

\* _cls_attrs(obj)
cls_attrs(cls) == SelectSeq(TypeDictKeys(cls), LAMBDA attr : ~IsDunder(attr))

\* _cls_attr_vals(obj)
cls_attr_vals(cls) == [i \in 1..Len(cls_attrs(cls)) |-> ClassAttr(cls, cls_attrs(cls)[i])]

\* d[k] = v on a dict kept as its items in insertion order.
DictSet(d, key, val) ==
    IF \E i \in 1..Len(d) : d[i].k = key
        THEN [i \in 1..Len(d) |-> IF d[i].k = key THEN [k |-> key, v |-> val] ELSE d[i]]
        ELSE Append(d, [k |-> key, v |-> val])

\* dict(zip(keys, vals))
RECURSIVE DictZip(_, _)
DictZip(keys, vals) ==
    IF keys = <<>> \/ vals = <<>> THEN <<>>
    ELSE DictSet(DictZip(SubSeq(keys, 1, Len(keys) - 1), SubSeq(vals, 1, Len(keys) - 1)),
                 keys[Len(keys)], vals[Len(keys)])

\* An update that keeps the value of a key the dict already holds.
RECURSIVE DictUpdateKeepsOld(_, _)
DictUpdateKeepsOld(d, e) ==
    IF e = <<>> THEN d
    ELSE DictUpdateKeepsOld(
             IF \E i \in 1..Len(d) : d[i].k = e[1].k THEN d ELSE DictSet(d, e[1].k, e[1].v),
             Tail(e))

\* d.update(e)
RECURSIVE DictUpdate(_, _)
DictUpdate(d, e) ==
    IF e = <<>> THEN d ELSE DictUpdate(DictSet(d, e[1].k, e[1].v), Tail(e))

\* str(val) as the f-string renders it.
Str(val) == IF val.kind = "int" THEN ToString(val.v) ELSE "<member>"

\* ', '.join(...)
RECURSIVE Join(_)
Join(parts) ==
    IF parts = <<>> THEN ""
    ELSE IF Len(parts) = 1 THEN parts[1]
    ELSE parts[1] \o ", " \o Join(Tail(parts))

\* autorepr(self)
autorepr(cls, self) ==
    LET combined_dict ==
            DictUpdate(DictZip(cls_attrs(cls), cls_attr_vals(cls)),
                       DictZip(obj_attrs(cls, self), obj_attr_vals(cls, self)))
    IN  self.cls \o "("
        \o Join([i \in 1..Len(combined_dict) |->
                    combined_dict[i].k \o "=" \o Str(combined_dict[i].v)])
        \o ")"

\* zip(a, b)
Zip(a, b) ==
    [i \in 1..(IF Len(a) < Len(b) THEN Len(a) ELSE Len(b)) |-> <<a[i], b[i]>>]

\* autoeq(self, other)
autoeq(cls, self, other) ==
    IF other.cls # self.cls THEN FALSE
    ELSE \A i \in 1..Len(Zip(obj_attr_vals(cls, self), obj_attr_vals(cls, other))) :
            Zip(obj_attr_vals(cls, self), obj_attr_vals(cls, other))[i][1]
                = Zip(obj_attr_vals(cls, self), obj_attr_vals(cls, other))[i][2]

NoResult == [op |-> "none", on |-> "self", text |-> "", flag |-> FALSE]

(***************************************************************************)
(* The state machine of injection calls.                                   *)
(***************************************************************************)

\* The classes as their sources define them: each own table holds what the
\* class body defines.
InitSlots(defs) ==
    [c \in Classes |-> [d \in Names |-> IF <<c, d>> \in defs THEN SrcDef(c, d) ELSE Absent]]

InitInject(defs) ==
    /\ slots = InitSlots(defs)
    /\ dunders_to_funcs = InitialRegistry
    /\ deco = NoDeco
    /\ last = NoCall
    /\ pre = [slots |-> slots, reg |-> dunders_to_funcs]
    /\ calls = 0

Init ==
    /\ \E defs \in SUBSET SrcChoices : InitInject(defs)
    /\ klass = PlainClass(<<>>)
    /\ objs = [self |-> Construct("Foo", klass), other |-> Construct("Foo", klass)]
    /\ res = NoResult

Snapshot == [slots |-> slots, reg |-> dunders_to_funcs]

\* register(name, func)
register(name, func) ==
    /\ dunders_to_funcs' = [dunders_to_funcs EXCEPT ![name] = func]
    /\ last' = [NoCall EXCEPT !.op = "register", !.target = StrObj(name), !.func = func]
    /\ pre' = Snapshot
    /\ UNCHANGED <<slots, deco>>

\* add_dunders(cls, dunders=..., callbacks=...): the direct form.
add_dunders(cls, dunders, callbacks) ==
    LET r == dunder_decorator(slots, dunders_to_funcs, cls, dunders, callbacks)
    IN  /\ slots' = r.slots
        /\ last' = [NoCall EXCEPT !.op = "add_dunders", !.target = ClassObj(cls),
                                  !.dunders = dunders, !.callbacks = callbacks,
                                  !.err = r.err]
        /\ pre' = Snapshot
        /\ UNCHANGED <<dunders_to_funcs, deco>>

\* add_dunders(dunders=..., callbacks=...): cls_ is None, the decorator is returned.
make_decorator(dunders, callbacks) ==
    /\ deco' = [made |-> TRUE, dunders |-> dunders, callbacks |-> callbacks]
    /\ last' = [NoCall EXCEPT !.op = "make_decorator", !.dunders = dunders,
                              !.callbacks = callbacks]
    /\ pre' = Snapshot
    /\ UNCHANGED <<slots, dunders_to_funcs>>

\* The returned decorator applied to a class; the nonlocal assignments leave
\* the defaults in the closure's cells.
apply_decorator(cls) ==
    /\ deco.made
    /\ LET r == dunder_decorator(slots, dunders_to_funcs, cls, deco.dunders, deco.callbacks)
       IN  /\ slots' = r.slots
           /\ last' = [NoCall EXCEPT !.op = "apply_decorator", !.target = ClassObj(cls),
                                     !.dunders = deco.dunders,
                                     !.callbacks = deco.callbacks, !.err = r.err]
    /\ deco' = [deco EXCEPT !.dunders = Given(DefaultDunders(deco.dunders)),
                            !.callbacks = IF deco.callbacks = "None" THEN "registry"
                                          ELSE deco.callbacks]
    /\ pre' = Snapshot
    /\ UNCHANGED dunders_to_funcs

\* add_dunders_to_module(module, dunders, callbacks, recurse)
module_call(arg, dunders, callbacks, recurse) ==
    LET r == add_dunders_to_module(slots, dunders_to_funcs, arg, dunders, callbacks, recurse)
    IN  /\ slots' = r.slots
        /\ last' = [NoCall EXCEPT !.op = "add_dunders_to_module", !.target = arg,
                                  !.dunders = dunders, !.callbacks = callbacks,
                                  !.recurse = recurse, !.err = r.err]
        /\ pre' = Snapshot
        /\ UNCHANGED <<dunders_to_funcs, deco>>

\* The classes the model decorates.
Decorated == {"Base"}

Register == \E n \in RegNames, f \in RegFuncs : register(n, f)
AddDunders == \E c \in Decorated, d \in DunderArgs, cb \in CallbackArgs : add_dunders(c, d, cb)
MakeDecorator == \E d \in DunderArgs, cb \in CallbackArgs : make_decorator(d, cb)
ApplyDecorator == \E c \in Decorated : apply_decorator(c)
AddDundersToModule == \E a \in ModuleCallArgs : module_call(a[1], a[2], a[3], a[4])

\* Every operation, in runs of at most MaxCalls calls.
MaxCalls == 3

Next ==
    /\ calls < MaxCalls
    /\ calls' = calls + 1
    /\ UNCHANGED <<klass, objs, res>>
    /\ (Register \/ AddDunders \/ MakeDecorator \/ ApplyDecorator \/ AddDundersToModule)

Spec == Init /\ [][Next]_vars

\* Module-wide injection and registration, in runs of any length.
NextModule == UNCHANGED <<calls, klass, objs, res>> /\ (Register \/ AddDundersToModule)

SpecModule == Init /\ [][NextModule]_vars

\* Single-class injection, direct and deferred, and registration, in runs of
\* any length.
NextClass ==
    /\ UNCHANGED <<calls, klass, objs, res>>
    /\ (Register \/ AddDunders \/ MakeDecorator \/ ApplyDecorator)

SpecClass == Init /\ [][NextClass]_vars

(***************************************************************************)
(* The state machine of objects of one class.                              *)
(***************************************************************************)

Who == {"self", "other"}
Peer(w) == IF w = "self" THEN "other" ELSE "self"

\* The classes other may belong to: self's, or an unrelated one of the same shape.
OtherClasses == {"Foo", "Foo1"}

\* obj.name = val: a slotted instance takes its slots only, another instance
\* any name; an attribute assigned before keeps its place.
SetAttr(w, name, val) ==
    /\ IF klass.slotted THEN name \in Range(klass.declared)
       ELSE name \in Range(Keys(objs[w].attrs)) \/ Len(objs[w].attrs) < MaxOwn
    /\ objs' = [objs EXCEPT ![w].attrs = DictSet(@, name, val)]
    /\ res' = NoResult
    /\ UNCHANGED <<klass, inject>>

\* repr(self) on the injected class
CallRepr ==
    /\ res' = [NoResult EXCEPT !.op = "repr", !.text = autorepr(klass, objs.self)]
    /\ UNCHANGED <<klass, objs, inject>>

\* obj == peer on the injected class
CallEq(w) ==
    /\ res' = [NoResult EXCEPT !.op = "eq", !.on = w,
                               !.flag = autoeq(klass, objs[w], objs[Peer(w)])]
    /\ UNCHANGED <<klass, objs, inject>>

\* One object of any class of ClassDefs, assigned to and displayed.
InitRepr ==
    /\ InitInject({})
    /\ klass \in ClassDefs
    /\ objs = [self |-> Construct("Foo", klass), other |-> Construct("Foo", klass)]
    /\ res = NoResult

AssignSelf == \E n \in Range(FieldNames), v \in OwnVals : SetAttr("self", n, v)

NextRepr == AssignSelf \/ CallRepr

SpecRepr == InitRepr /\ [][NextRepr]_vars

\* Two objects, assigned to and compared; the class has slots or not, and no
\* class-level fields (autoeq reads none).
InitEq ==
    /\ InitInject({})
    /\ klass \in {c \in ClassDefs : c.body = <<>>}
    /\ \E c \in OtherClasses :
          objs = [self |-> Construct("Foo", klass), other |-> Construct(c, klass)]
    /\ res = NoResult

Assign == \E w \in Who, n \in Range(FieldNames), v \in OwnVals : SetAttr(w, n, v)
Eq == \E w \in Who : CallEq(w)

NextEq == Assign \/ Eq

SpecEq == InitEq /\ [][NextEq]_vars

(***************************************************************************)
(* Properties of autorepr and autoeq.                                      *)
(***************************************************************************)

\* The names assigned on an instance, in assignment order, and, for a slotted
\* class, the declared slots.
OwnNames(obj) == IF klass.slotted THEN klass.declared ELSE Keys(obj.attrs)

\* The non-dunder names of the class namespace in its order: the fields of the
\* class body, and for a slotted class the members its slots put there.
ClassLevelNames ==
    IF klass.slotted THEN SortedNames(Range(klass.declared)) ELSE Keys(klass.body)

\* name=value, the value being the instance's when the instance has the name.
Shown(obj, n) ==
    n \o "=" \o ToString(IF n \in Range(Keys(obj.attrs)) THEN InstanceAttr(obj, n).v
                         ELSE ClassAttr(klass, n).v)

RECURSIVE Listed(_, _)
Listed(obj, names) ==
    IF names = <<>> THEN ""
    ELSE Shown(obj, names[1])
         \o (IF Len(names) > 1 THEN ", " ELSE "") \o Listed(obj, Tail(names))

C2_EqualFieldsCompareEqual ==
    (/\ res.op = "eq"
     /\ objs.self.cls = objs.other.cls
     /\ Range(Keys(objs.self.attrs)) = Range(Keys(objs.other.attrs))
     /\ \A n \in Range(Keys(objs.self.attrs)) :
           InstanceAttr(objs.self, n) = InstanceAttr(objs.other, n))
        => res.flag

\* C8: for a slotted class the own-field enumeration is the declared slots in
\* declared order, and autorepr lists the fields in that order, each once.
C8_SlotsInDeclaredOrder ==
    klass.slotted =>
        /\ obj_attrs(klass, objs.self) = klass.declared
        /\ res.op = "repr" =>
              res.text = klass.name \o "(" \o Listed(objs.self, klass.declared) \o ")"

(***************************************************************************)
(* Properties of the injection calls.                                      *)
(***************************************************************************)

\* What the last call was given, read from its record.
IsModuleCall == last.op = "add_dunders_to_module"
IsClassCall == last.op \in {"add_dunders", "apply_decorator"}
Resolved ==
    \/ last.target.kind = "module"
    \/ last.target.kind = "str" /\ last.target.id \in SysModules
Requested == IF last.dunders.none THEN <<"__repr__", "__eq__">> ELSE last.dunders.val
Supplied == IF last.callbacks = "custom" THEN CustomCallbacks ELSE pre.reg
Returned == last.err = "none"

\* The classes among the values of m's namespace.
Found(m) ==
    {ModuleDict(m)[i].id : i \in {j \in 1..Len(ModuleDict(m)) : IsClass(ModuleDict(m)[j])}}

\* The modules among the values of m's namespace that name m as their package.
Submodules(m) ==
    {ModuleDict(m)[i].id :
        i \in {j \in 1..Len(ModuleDict(m)) :
                  /\ ModuleDict(m)[j].kind = "module"
                  /\ Package(ModuleDict(m)[j].id).id = m}}

\* K's implementation of d, own or inherited, was object's when the call started.
WasDefault(K, d) == Getattr(pre.slots, K, d) = ObjectAttr(d)

C4_RecurseReachesSubmodules ==
    (IsModuleCall /\ Resolved /\ Returned) =>
        \A sub \in Submodules(last.target.id) : \A K \in Found(sub) :
            IF last.recurse
                THEN \A i \in 1..Len(Requested) :
                        WasDefault(K, Requested[i]) =>
                            Getattr(slots, K, Requested[i]) = Supplied[Requested[i]]
                ELSE slots[K] = pre.slots[K]

\* No class in K's __mro__ defines d in its source.
NotDefinedInSource(K, d) ==
    \A i \in 1..Len(Mro(K)) : slots[Mro(K)[i]][d] # SrcDef(Mro(K)[i], d)

\* C5: after add_dunders_to_module(m, dunders=('__repr__',), callbacks=C)
\* returns, K.__repr__ is C['__repr__'] for every class K of m whose source
\* defines no __repr__, whatever calls were made on m before.
C5_ReprInstalledAfterEarlierCalls ==
    (IsModuleCall /\ Resolved /\ Returned /\ last.dunders = Given(<<"__repr__">>)) =>
        \A K \in Found(last.target.id) :
            NotDefinedInSource(K, "__repr__") =>
                Getattr(slots, K, "__repr__") = Supplied["__repr__"]

\* C6: add_dunders_to_module given neither a module nor the name of an imported
\* module raises TypeError and changes no method table and no registry entry.
C6_TypeErrorUnlessResolvable ==
    (IsModuleCall /\ ~Resolved) =>
        /\ last.err = "TypeError"
        /\ slots = pre.slots
        /\ dunders_to_funcs = pre.reg

\* C9: add_dunders_to_module(m, ...) changes the method tables only of classes
\* defined in m (and, with recurse=True, in submodules whose declared package
\* is m); a class m merely imported is unchanged.
C9_OnlyClassesDefinedInModule ==
    (IsModuleCall /\ Resolved) =>
        \A K \in Classes :
            (/\ DefinedIn(K) # last.target.id
             /\ ~(last.recurse /\ DefinedIn(K) \in Submodules(last.target.id)))
                => slots[K] = pre.slots[K]

\* The positions of the requested names that the mapping does not hold.
MissingAt == {i \in 1..Len(Requested) : Supplied[Requested[i]] = Absent}
Least(S) == CHOOSE i \in S : \A j \in S : i <= j
NamesBefore(i) == {Requested[j] : j \in 1..(i - 1)}

\* The names requested before position i are installed: on the class of an
\* add_dunders call, and in a module call on the classes of the module that
\* had object's implementation.
InstalledBefore(i) ==
    \A j \in 1..(i - 1) :
        LET d == Requested[j]
        IN  IF IsClassCall THEN slots[last.target.id][d] = Supplied[d]
            ELSE \A K \in Found(last.target.id) :
                    (WasDefault(K, d) /\ Supplied[d] # Absent) =>
                        Getattr(slots, K, d) = Supplied[d]

\* The names requested from position i on, unless also requested before it,
\* are installed nowhere.
NotInstalledFrom(i) ==
    \A j \in i..Len(Requested) :
        Requested[j] \notin NamesBefore(i) =>
            \A K \in Classes : slots[K][Requested[j]] = pre.slots[K][Requested[j]]

\* C7 as stated: a call of add_dunders or add_dunders_to_module whose requested
\* names include one the mapping does not hold fails with a lookup error (the
\* AttributeError of a name object lacks is let pass as one); the names before
\* the missing one stay installed, the names after it are not installed.
C7_MissingNameAlwaysFails ==
    ((IsClassCall \/ (IsModuleCall /\ Resolved)) /\ MissingAt # {}) =>
        /\ last.err \in {"KeyError", "AttributeError"}
        /\ InstalledBefore(Least(MissingAt))
        /\ NotInstalledFrom(Least(MissingAt))

\* The positions at which a module call stops: a name that is no attribute of
\* object when the module holds a class, or a name the mapping does not hold
\* when the module holds a class that still has object's implementation of it.
StopsAt ==
    {i \in 1..Len(Requested) :
        /\ Found(last.target.id) # {}
        /\ \/ Requested[i] \notin ObjectAttrs
           \/ /\ Supplied[Requested[i]] = Absent
              /\ \E K \in Found(last.target.id) : WasDefault(K, Requested[i])}

\* C7 as amended: add_dunders fails with KeyError at the first requested name
\* the mapping does not hold.  add_dunders_to_module looks a name up only when
\* it reaches a class that still has object's implementation of it: it fails
\* with KeyError at the first missing name for which the module holds such a
\* class (with AttributeError at a name that is no attribute of object), and a
\* missing name for which the module holds no such class is passed over
\* without error.  Where a call fails, the names before that point stay
\* installed and the names from that point on are not installed.
C7_MissingNameFailsWhenLookedUp ==
    /\ (IsClassCall /\ MissingAt # {}) =>
          /\ last.err = "KeyError"
          /\ InstalledBefore(Least(MissingAt))
          /\ NotInstalledFrom(Least(MissingAt))
    /\ (IsModuleCall /\ Resolved /\ MissingAt # {}) =>
          IF StopsAt = {} THEN Returned
          ELSE /\ last.err = IF Requested[Least(StopsAt)] \in ObjectAttrs
                                THEN "KeyError" ELSE "AttributeError"
               /\ InstalledBefore(Least(StopsAt))
               /\ NotInstalledFrom(Least(StopsAt))

\* A module call asked for __eq__, __str__, __repr__ with __str__ missing:
\* KeyError, __eq__ installed on a class and __repr__ not installed on it.
C7_Witness ==
    /\ IsModuleCall /\ Resolved /\ last.err = "KeyError"
    /\ Requested = <<"__eq__", "__str__", "__repr__">>
    /\ Least(MissingAt) = 2
    /\ \E K \in Found(last.target.id) :
          /\ WasDefault(K, "__eq__") /\ slots[K]["__eq__"] = Supplied["__eq__"]
          /\ WasDefault(K, "__repr__") /\ Getattr(slots, K, "__repr__") = ObjectAttr("__repr__")

\* C10: add_dunders applied to a class with no mapping, directly or through
\* the deferred form, leaves every requested slot of the class equal to the
\* registry's entry at the moment of injection (so after register(n, f) and
\* dunders=(n,), slot n is f), whatever the class held before; every slot not
\* requested is unchanged, and with no dunders given exactly __repr__ and
\* __eq__ are overwritten.  register(n, f) leaves n mapped to f.
C10_OverwriteFromRegistry ==
    /\ last.op = "register" => dunders_to_funcs[last.target.id] = last.func
    /\ (IsClassCall /\ last.callbacks # "custom" /\ MissingAt = {}) =>
          /\ Returned
          /\ last.dunders.none => Requested = <<"__repr__", "__eq__">>
          /\ \A d \in Names :
                IF \E i \in 1..Len(Requested) : Requested[i] = d
                    THEN slots[last.target.id][d] = dunders_to_funcs[d]
                    ELSE slots[last.target.id][d] = pre.slots[last.target.id][d]
          /\ \A K \in Classes \ {last.target.id} : slots[K] = pre.slots[K]

\* The deferred form applied, with dunders=('__repr__',), to a class that
\* defines __repr__ itself, after a function was registered for __repr__.
C10_Witness ==
    /\ last.op = "apply_decorator" /\ last.callbacks # "custom"
    /\ last.dunders = Given(<<"__repr__">>)
    /\ dunders_to_funcs["__repr__"] \in RegFuncs
    /\ pre.slots[last.target.id]["__repr__"] = SrcDef(last.target.id, "__repr__")
    /\ slots[last.target.id]["__repr__"] = dunders_to_funcs["__repr__"]

====
